---- MODULE Spec2Model ----
(***************************************************************************)
(* A model of two classes of theanolm:                                     *)
(*   - theanolm.layers.basiclayer.BasicLayer   (parameter registry, bias   *)
(*     initialisation, parameter lookup), specification SpecBasicLayer,    *)
(*     and SpecInitBias for _init_bias over its whole bounded domain;      *)
(*   - theanolm.network.softmaxlayer.SoftmaxLayer (construction and the    *)
(*     graph built by create_structure), specification Spec.               *)
(* Python values are tagged records, so that None, a missing attribute and *)
(* an array are pairwise distinct and comparable.                          *)
(***************************************************************************)
EXTENDS Integers, Sequences, FiniteSets, TLC

VARIABLES
    name,               \* self.name
    param_init_values,  \* self.param_init_values: key -> initial value
    _params,            \* self._params (missing until set_params)
    registered,         \* history: parameter names whose registration completed
    call,               \* history: the last method call, its arguments and outcome
    pc,                 \* where the layer object is in its life
    _network,           \* self._network: the options and inputs of the network
    _input_layers,      \* self._input_layers
    output_size,        \* self.output_size
    _unk_id,            \* self._unk_id
    output_probs,
    target_probs,
    unnormalized_logprobs,
    sample,
    sample_logprobs,
    seqshared_sample,
    seqshared_sample_logprobs,
    shared_sample,
    shared_sample_logprobs,
    frame               \* the locals of the last create_structure call

results == <<output_probs, target_probs, unnormalized_logprobs, sample,
             sample_logprobs, seqshared_sample, seqshared_sample_logprobs,
             shared_sample, shared_sample_logprobs>>

softmaxVars == <<pc, _network, _input_layers, output_size, _unk_id, results, frame>>

vars == <<name, param_init_values, _params, registered, call, softmaxVars>>

-----------------------------------------------------------------------------
(* Bounds of the model.                                                    *)

MaxSize == 2

MaxCount == 1

MaxList == 2

MaxInputs == 2

MaxWidth == 2

MaxTimeSteps == 2

MaxSequences == 2

MaxClasses == 3

-----------------------------------------------------------------------------
(* Python values.                                                          *)

PyNone == [type |-> "NoneType"]

Unset == [type |-> "unset"]

Float(v) == [type |-> "float", v |-> v]

PyList(items) == [type |-> "list", items |-> items]

NoCall == [op |-> "none", raised |-> "none"]

EmptyDict == [k \in {} |-> PyNone]

DictSet(d, k, v) == [x \in DOMAIN d \cup {k} |-> IF x = k THEN v ELSE d[x]]

RECURSIVE SeqSum(_)
SeqSum(s) == IF s = <<>> THEN 0 ELSE Head(s) + SeqSum(Tail(s))

RECURSIVE Flatten(_)
Flatten(ss) == IF ss = <<>> THEN <<>> ELSE Head(ss) \o Flatten(Tail(ss))

-----------------------------------------------------------------------------
(* numpy and theanolm.matrixfunctions.                                     *)

Vector(data) == [type |-> "ndarray", ndim |-> 1, data |-> data]

Matrix(rows, cols, gen) ==
    [type |-> "ndarray", ndim |-> 2, shape |-> <<rows, cols>>, gen |-> gen]

zeros(size) == Vector([i \in 1..size |-> 0])

filled(size, v) == Vector([i \in 1..size |-> v])

random_weight(in_size, out_size) == Matrix(in_size, out_size, "random")

orthogonal_weight(in_size, out_size) ==
    Matrix(in_size, out_size, "orthogonal")

\* numpy.concatenate(vectors): one vector holding the vectors' elements in order.
concatenate(subvectors) == Vector(Flatten([i \in DOMAIN subvectors |-> subvectors[i].data]))

\* numpy.concatenate(matrices, axis=1): the columns side by side.
concatenate_axis1(ms) ==
    Matrix(ms[1].shape[1], SeqSum([i \in DOMAIN ms |-> ms[i].shape[2]]), ms[1].gen)

-----------------------------------------------------------------------------
(* BasicLayer                                                              *)

LayerNames == {"layer1", "layer1.input"}

ParamNames == {"b", "input.W"}

BiasNumbers == {1, 2}

BiasItems == {PyNone} \cup {Float(v) : v \in BiasNumbers}

RECURSIVE SeqsUpTo(_, _)
SeqsUpTo(S, n) ==
    IF n = 0 THEN {<<>>}
    ELSE LET shorter == SeqsUpTo(S, n - 1)
         IN  shorter \cup {Append(s, x) : s \in {t \in shorter : Len(t) = n - 1}, x \in S}

BiasValues == BiasItems \cup {PyList(items) : items \in SeqsUpTo(BiasItems, MaxList)}

KeyUniverse == {n \o "." \o p : n \in LayerNames, p \in ParamNames}

SharedVariable(key) == [type |-> "shared", name |-> key]

\* The mappings the network hands to set_params, one shared variable per key:
\* the parameters of every layer, or part of this layer's only.
ParamMappings ==
    {[k \in K |-> SharedVariable(k)] :
        K \in {{}, KeyUniverse} \cup {{name \o "." \o p} : p \in ParamNames}}

InitBasicLayer ==
    /\ name \in LayerNames
    /\ param_init_values = EmptyDict
    /\ _params = Unset
    /\ registered = {}
    /\ call = NoCall
    /\ pc = "constructed"
    /\ _network = Unset
    /\ _input_layers = <<>>
    /\ output_size = 0
    /\ _unk_id = Unset
    /\ output_probs = Unset
    /\ target_probs = Unset
    /\ unnormalized_logprobs = Unset
    /\ sample = Unset
    /\ sample_logprobs = Unset
    /\ seqshared_sample = Unset
    /\ seqshared_sample_logprobs = Unset
    /\ shared_sample = Unset
    /\ shared_sample_logprobs = Unset
    /\ frame = Unset

set_params(params) ==
    /\ _params' = params
    /\ call' = [op |-> "set_params", raised |-> "none"]
    /\ UNCHANGED <<name, param_init_values, registered, softmaxVars>>

\* A lookup that forgets the layer prefix.
_get_param_unprefixed(param_name) ==
    LET key == param_name
        raised == IF _params = Unset THEN "AttributeError"
                  ELSE IF key \notin DOMAIN _params THEN "KeyError"
                  ELSE "none"
    IN  /\ call' = [op |-> "_get_param", param_name |-> param_name, raised |-> raised,
                    returned |-> IF raised = "none" THEN _params[key] ELSE Unset]
        /\ UNCHANGED <<name, param_init_values, _params, registered, softmaxVars>>

_get_param(param_name) ==
    LET key == name \o "." \o param_name
        raised == IF _params = Unset THEN "AttributeError"
                  ELSE IF key \notin DOMAIN _params THEN "KeyError"
                  ELSE "none"
    IN  /\ call' = [op |-> "_get_param", param_name |-> param_name, raised |-> raised,
                    returned |-> IF raised = "none" THEN _params[key] ELSE Unset]
        /\ UNCHANGED <<name, param_init_values, _params, registered, softmaxVars>>

\* The registration both weight initialisers end with; numpy.concatenate raises
\* ValueError for an empty list of arrays, before anything is stored.
RegisterWeight(op, param_name, matrices) ==
    IF matrices = <<>>
    THEN /\ call' = [op |-> op, param_name |-> param_name, raised |-> "ValueError"]
         /\ UNCHANGED <<name, param_init_values, _params, registered, softmaxVars>>
    ELSE LET value == concatenate_axis1(matrices)
         IN  /\ param_init_values' =
                    DictSet(param_init_values, name \o "." \o param_name, value)
             /\ registered' = registered \cup {param_name}
             /\ call' = [op |-> op, param_name |-> param_name, raised |-> "none",
                         stored |-> value]
             /\ UNCHANGED <<name, _params, softmaxVars>>

_init_random_weight(param_name, in_size, out_size, count) ==
    RegisterWeight("_init_random_weight", param_name,
                   [i \in 1..count |-> random_weight(in_size, out_size)])

_init_orthogonal_weight(param_name, in_size, out_size, count) ==
    RegisterWeight("_init_orthogonal_weight", param_name,
                   [i \in 1..count |-> orthogonal_weight(in_size, out_size)])

\* Subvectors that are never filled with their value.
BiasSubvectorsUnfilled(size, value) ==
    LET values == IF value.type = "list" THEN value.items ELSE <<value>>
    IN  [i \in DOMAIN values |-> zeros(size)]

\* Lines 120-128: one subvector per entry of the list (or for the single value).
BiasSubvectors(size, value) ==
    LET values == IF value.type = "list" THEN value.items ELSE <<value>>
    IN  [i \in DOMAIN values |->
            IF values[i] = PyNone THEN zeros(size) ELSE filled(size, values[i].v)]

_init_bias(param_name, size, value) ==
    LET subvectors == BiasSubvectors(size, value)
    IN  IF subvectors = <<>>
        THEN /\ call' = [op |-> "_init_bias", param_name |-> param_name,
                         size |-> size, value |-> value, raised |-> "ValueError"]
             /\ UNCHANGED <<name, param_init_values, _params, registered, softmaxVars>>
        ELSE /\ param_init_values' =
                    DictSet(param_init_values, name \o "." \o param_name,
                            concatenate(subvectors))
             /\ registered' = registered \cup {param_name}
             /\ call' = [op |-> "_init_bias", param_name |-> param_name,
                         size |-> size, value |-> value, raised |-> "none",
                         stored |-> concatenate(subvectors)]
             /\ UNCHANGED <<name, _params, softmaxVars>>

InitRandomWeight ==
    \E p \in ParamNames, i \in 1..MaxSize, o \in 1..MaxSize, c \in 0..MaxCount :
        _init_random_weight(p, i, o, c)

\* Drawn square, the case in which the matrix is orthogonal.
InitOrthogonalWeight ==
    \E p \in ParamNames, n \in 1..MaxSize, c \in 0..MaxCount :
        _init_orthogonal_weight(p, n, n, c)

\* The bias values layers pass when they register their parameters.
LayerBiasValues == {PyNone, Float(1), PyList(<<PyNone, Float(1)>>)}

InitBias ==
    \E p \in ParamNames, value \in LayerBiasValues : _init_bias(p, MaxSize, value)

\* _init_bias on its own, over every value of the bounded domain.
InitBiasAny ==
    \E size \in 0..MaxSize, value \in BiasValues : _init_bias("b", size, value)

SetParams == \E params \in ParamMappings : set_params(params)

GetParam == \E p \in ParamNames : _get_param(p)

NextBasicLayer ==
    \/ InitRandomWeight
    \/ InitOrthogonalWeight
    \/ InitBias
    \/ SetParams
    \/ GetParam

SpecBasicLayer == InitBasicLayer /\ [][NextBasicLayer]_vars

NextInitBias == InitBiasAny \/ GetParam \/ SetParams

SpecInitBias == InitBasicLayer /\ [][NextInitBias]_vars

-----------------------------------------------------------------------------
(* Claims about BasicLayer.                                                *)

InitOps == {"_init_random_weight", "_init_orthogonal_weight", "_init_bias"}

\* C4: every value registered for parameter name p sits in param_init_values
\* under exactly the key "<layer name>.<p>" (no other key exists), and once
\* set_params got a mapping holding every registered key, _get_param(p) returns
\* the mapping's entry under that same key, for every registered p.
C4_ParamNameRoundTrip ==
    /\ DOMAIN param_init_values = {name \o "." \o p : p \in registered}
    /\ (call.op \in InitOps /\ call.raised = "none") =>
            param_init_values[name \o "." \o call.param_name] = call.stored
    /\ ( /\ call.op = "_get_param"
         /\ call.param_name \in registered
         /\ _params # Unset
         /\ \A p \in registered : (name \o "." \o p) \in DOMAIN _params ) =>
            /\ call.raised = "none"
            /\ call.returned = _params[name \o "." \o call.param_name]

C4_Witness ==
    /\ name = "layer1.input"
    /\ registered = ParamNames
    /\ param_init_values["layer1.input.b"].ndim = 1
    /\ param_init_values["layer1.input.input.W"].ndim = 2
    /\ call.op = "_get_param"
    /\ call.param_name = "input.W"
    /\ _params # Unset
    /\ DOMAIN _params = KeyUniverse
    /\ call.returned = SharedVariable("layer1.input.input.W")

\* What the claim says _init_bias(param_name, size, value) registers.
ClaimedBias(size, value) ==
    IF value = PyNone THEN [j \in 1..size |-> 0]
    ELSE IF value.type = "float" THEN [j \in 1..size |-> value.v]
    ELSE [j \in 1..(Len(value.items) * size) |->
            LET entry == value.items[((j - 1) \div size) + 1]
            IN  IF entry = PyNone THEN 0 ELSE entry.v]

BiasRegistered(data) ==
    /\ call.raised = "none"
    /\ (name \o "." \o call.param_name) \in DOMAIN param_init_values
    /\ param_init_values[name \o "." \o call.param_name] = Vector(data)

\* C5 as stated: after _init_bias(param_name, size, value) the registered vector
\* is size zeros for None, size copies of a single number, and for a list of k
\* entries the k*size elements with element j the (j div size)-th entry (zero
\* for None) -- for every list, the empty one included.
C5_AsStated ==
    call.op = "_init_bias" => BiasRegistered(ClaimedBias(call.size, call.value))

\* C5 amended: the same for None, a single number and a list of k >= 1 entries;
\* for the empty list the call ends in numpy.concatenate's ValueError.
C5_InitBiasVector ==
    call.op = "_init_bias" =>
        IF call.value = PyList(<<>>)
        THEN call.raised = "ValueError"
        ELSE BiasRegistered(ClaimedBias(call.size, call.value))

C5_Witness ==
    /\ call.op = "_init_bias"
    /\ call.size = 2
    /\ call.value = PyList(<<PyNone, Float(2)>>)
    /\ param_init_values[name \o ".b"] = Vector(<<0, 0, 2, 2>>)

-----------------------------------------------------------------------------
(* Tensors. A 3-dimensional tensor is a sequence (time steps) of sequences *)
(* (sequences) of sequences (features); indices are Python's plus one.     *)
(* Reshaping goes through the row-major order of the elements, as numpy    *)
(* and Theano do.                                                          *)

Tensor(value) == [type |-> "TensorVariable", value |-> value]

Symbolic(expr) == [type |-> "TensorVariable", expr |-> expr]

Ravel2(m) == Flatten(m)

Ravel3(x) == Flatten([t \in DOMAIN x |-> Flatten(x[t])])

Reshape2(flat, rows, cols) ==
    [r \in 1..rows |-> [c \in 1..cols |-> flat[(r - 1) * cols + c]]]

Reshape3(flat, d0, d1, d2) ==
    [t \in 1..d0 |-> [s \in 1..d1 |-> [c \in 1..d2 |->
        flat[((t - 1) * d1 + (s - 1)) * d2 + c]]]]

\* tensor.concatenate(outputs, axis=2)
concatenate_axis2(outputs) ==
    [t \in DOMAIN outputs[1] |-> [s \in DOMAIN outputs[1][t] |->
        Flatten([l \in DOMAIN outputs |-> outputs[l][t][s]])]]

\* tensor.dot(x, W) + b for a 3-dimensional x, broadcasting b over locations.
DotPlusBias(x, W, b) ==
    [t \in DOMAIN x |-> [s \in DOMAIN x[t] |-> [j \in DOMAIN W[1] |->
        SeqSum([i \in DOMAIN x[t][s] |-> x[t][s][i] * W[i][j]]) + b[j]]]]

RECURSIVE SeqMin(_)
SeqMin(s) ==
    IF Len(s) = 1 THEN s[1]
    ELSE LET m == SeqMin(Tail(s)) IN IF s[1] < m THEN s[1] ELSE m

\* tensor.nnet.softmax, row by row. The exponential is taken to base 2 and a
\* probability is the pair <<numerator, denominator>> of exp(a[j] - min a) over
\* the sum of the row's numerators, which is the exact value of the quotient.
softmax(m) ==
    [r \in DOMAIN m |->
        LET lo == SeqMin(m[r])
            num == [j \in DOMAIN m[r] |-> 2 ^ (m[r][j] - lo)]
        IN  [j \in DOMAIN m[r] |-> <<num[j], SeqSum(num)>>]]

-----------------------------------------------------------------------------
(* SoftmaxLayer                                                            *)

\* The output of an input layer: what the layer's graph evaluates to on the
\* mini-batch, one feature vector of the layer's width per location.
LayerOutput(l, steps, seqs, width) ==
    [t \in 1..steps |-> [s \in 1..seqs |-> [k \in 1..width |->
        (l + k + 2 * t + s) % 3]]]

InputLayer(l, steps, seqs, width) ==
    [name |-> "input", output_size |-> width,
     output |-> LayerOutput(l, steps, seqs, width)]

\* Unigram class probabilities 1/2, 1/4, ..., each held as the exponent e of 2^-e.
GeometricPriors(n) == Vector([j \in 1..n |-> IF j < n THEN j ELSE n - 1])

\* numpy.log(class_prior_probs + 1e-10), in the base-2 units of softmax.
numpy_log(probs) == Vector([j \in DOMAIN probs.data |-> 0 - probs.data[j]])

Networks(steps, seqs, classes) ==
    [exclude_unk : BOOLEAN,
     class_prior_probs : {PyNone, GeometricPriors(classes)},
     unk_id : 0..(classes - 1),
     target_class_ids :
        {[t \in 1..steps |-> [s \in 1..seqs |-> (shift + t + 2 * s) % classes]] :
            shift \in 0..(classes - 1)}]

\* The layer as the network allocates it, when SoftmaxLayer.__init__ starts.
Init ==
    /\ name = "output_layer"
    /\ param_init_values = EmptyDict
    /\ _params = Unset
    /\ registered = {}
    /\ call = NoCall
    /\ pc = "allocated"
    /\ output_size \in 2..MaxClasses
    /\ \E steps \in 1..MaxTimeSteps, seqs \in 1..MaxSequences :
        /\ _network \in Networks(steps, seqs, output_size)
        /\ \E widths \in SeqsUpTo(1..MaxWidth, MaxInputs) \ {<<>>} :
              _input_layers =
                  [l \in DOMAIN widths |-> InputLayer(l, steps, seqs, widths[l])]
    /\ _unk_id = Unset
    /\ output_probs = Unset
    /\ target_probs = Unset
    /\ unnormalized_logprobs = Unset
    /\ sample = Unset
    /\ sample_logprobs = Unset
    /\ seqshared_sample = Unset
    /\ seqshared_sample_logprobs = Unset
    /\ shared_sample = Unset
    /\ shared_sample_logprobs = Unset
    /\ frame = Unset

ParamPath(param_name) == "layers/" \o name \o "/" \o param_name

\* A weight matrix drawn by the random number generator.
WeightSeeds == {0, 1}

RandomMatrix(shape, seed) ==
    [type |-> "ndarray", ndim |-> 2, shape |-> shape,
     data |-> [i \in 1..shape[1] |-> [j \in 1..shape[2] |-> (seed + i + j) % 2]]]

\* The size of the first input layer alone.
input_size_of_first == _input_layers[1].output_size

\* Line 26: sum(x.output_size for x in self._input_layers)
input_size == SeqSum([l \in DOMAIN _input_layers |-> _input_layers[l].output_size])

\* Lines 29-33: the initial bias, zero unless class priors are given.
initial_bias ==
    IF _network.class_prior_probs = PyNone
    THEN zeros(output_size)
    ELSE numpy_log(_network.class_prior_probs)

__init__ ==
    /\ pc = "allocated"
    /\ \E seed \in WeightSeeds :
        param_init_values' =
            DictSet(DictSet(param_init_values, ParamPath("input/W"),
                            RandomMatrix(<<input_size, output_size>>, seed)),
                    ParamPath("input/b"), initial_bias)
    /\ registered' = registered \cup {"input/W", "input/b"}
    /\ _unk_id' = _network.unk_id
    /\ output_probs' = PyNone
    /\ target_probs' = PyNone
    /\ unnormalized_logprobs' = PyNone
    /\ sample' = PyNone
    /\ sample_logprobs' = PyNone
    /\ seqshared_sample' = PyNone
    /\ seqshared_sample_logprobs' = PyNone
    /\ shared_sample' = PyNone
    /\ shared_sample_logprobs' = PyNone
    /\ call' = [op |-> "__init__", raised |-> "none"]
    /\ pc' = "constructed"
    /\ UNCHANGED <<name, _params, _network, _input_layers, output_size, frame>>

\* The network turns the initial values into its parameters and hands them to
\* the layer before it builds the graph.
create_params ==
    /\ pc = "constructed"
    /\ _params' = param_init_values
    /\ call' = [op |-> "create_params", raised |-> "none"]
    /\ pc' = "ready"
    /\ UNCHANGED <<name, param_init_values, registered, _network,
                   _input_layers, output_size, _unk_id, results, frame>>

_tensor_preact(input_matrix, param_name) ==
    DotPlusBias(input_matrix,
                _params[ParamPath(param_name \o "/W")].data,
                _params[ParamPath(param_name \o "/b")].data)

_get_unnormalized_logprobs(layer_input) == Symbolic("unnormalized_logprobs")

_get_sample_tensors(layer_input) ==
    <<Symbolic("sample"), Symbolic("sample_logprobs")>>

_get_seqshared_sample_tensors(layer_input) ==
    <<Symbolic("seqshared_sample"), Symbolic("seqshared_sample_logprobs")>>

_get_shared_sample_tensors(layer_input) ==
    <<Symbolic("shared_sample"), Symbolic("shared_sample_logprobs")>>

\* The class ids flattened in column-major order.
TargetProbsColumnMajor(probs, class_ids) ==
    LET element_ids == [e \in 1..Len(probs) |-> e - 1]
        target_class_ids ==
            Flatten([s \in DOMAIN class_ids[1] |->
                        [t \in DOMAIN class_ids |-> class_ids[t][s]]])
    IN  [e \in DOMAIN element_ids |->
            probs[element_ids[e] + 1][target_class_ids[e] + 1]]

\* Lines 90-92: output_probs[(element_ids, target_class_ids)], the class ids
\* flattened in row-major order.
TargetProbs(probs, class_ids) ==
    LET element_ids == [e \in 1..Len(probs) |-> e - 1]
        target_class_ids == Ravel2(class_ids)
    IN  [e \in DOMAIN element_ids |->
            probs[element_ids[e] + 1][target_class_ids[e] + 1]]

\* The last assignment of create_structure left out.
SamplingTensorsButLast(layer_input) ==
    /\ unnormalized_logprobs' = _get_unnormalized_logprobs(layer_input)
    /\ sample' = _get_sample_tensors(layer_input)[1]
    /\ sample_logprobs' = _get_sample_tensors(layer_input)[2]
    /\ seqshared_sample' = _get_seqshared_sample_tensors(layer_input)[1]
    /\ seqshared_sample_logprobs' = _get_seqshared_sample_tensors(layer_input)[2]
    /\ shared_sample' = _get_shared_sample_tensors(layer_input)[1]
    /\ UNCHANGED shared_sample_logprobs

\* Lines 96-104: the unnormalized output and the noise samples for NCE.
SamplingTensors(layer_input) ==
    /\ unnormalized_logprobs' = _get_unnormalized_logprobs(layer_input)
    /\ sample' = _get_sample_tensors(layer_input)[1]
    /\ sample_logprobs' = _get_sample_tensors(layer_input)[2]
    /\ seqshared_sample' = _get_seqshared_sample_tensors(layer_input)[1]
    /\ seqshared_sample_logprobs' = _get_seqshared_sample_tensors(layer_input)[2]
    /\ shared_sample' = _get_shared_sample_tensors(layer_input)[1]
    /\ shared_sample_logprobs' = _get_shared_sample_tensors(layer_input)[2]

\* Lines 65-75: the locals create_structure holds when it reaches line 76.
Frame ==
    LET layer_input ==
            concatenate_axis2([l \in DOMAIN _input_layers |-> _input_layers[l].output])
        num_time_steps == Len(layer_input)
        num_sequences == Len(layer_input[1])
        preact == _tensor_preact(layer_input, "input")
    IN  [layer_input |-> layer_input,
         num_time_steps |-> num_time_steps,
         num_sequences |-> num_sequences,
         tensor_preact |-> preact,
         preact |-> Reshape2(Ravel3(preact),
                             num_time_steps * num_sequences, output_size)]

create_structure ==
    /\ pc = "ready"
    /\ frame' = Frame
    /\ IF _network.exclude_unk
       THEN \* line 79 reads output_prob, a name bound nowhere: NameError
            /\ call' = [op |-> "create_structure", raised |-> "NameError"]
            /\ pc' = "raised"
            /\ UNCHANGED results
       ELSE LET probs == softmax(frame'.preact)
                steps == frame'.num_time_steps
                seqs == frame'.num_sequences
            IN  /\ output_probs' =
                       Tensor(Reshape3(Ravel2(probs), steps, seqs, output_size))
                /\ target_probs' =
                       Tensor(Reshape2(TargetProbs(probs, _network.target_class_ids),
                                       steps, seqs))
                /\ SamplingTensors(frame'.layer_input)
                /\ call' = [op |-> "create_structure", raised |-> "none"]
                /\ pc' = "structured"
    /\ UNCHANGED <<name, param_init_values, _params, registered, _network,
                   _input_layers, output_size, _unk_id>>

Next ==
    \/ __init__
    \/ create_params
    \/ create_structure

Spec == Init /\ [][Next]_vars

-----------------------------------------------------------------------------
(* Claims about SoftmaxLayer.                                              *)

Locations ==
    {<<t, s>> : t \in 1..Len(_network.target_class_ids),
                s \in 1..Len(_network.target_class_ids[1])}

Numerators(probs) == [j \in DOMAIN probs |-> probs[j][1]]

\* C1: with exclude_unk set, create_structure completes, and at every location
\* the probability of <unk> is zero while the probabilities of the other classes
\* sum to one.
C1_UnkExcluded ==
    (call.op = "create_structure" /\ _network.exclude_unk) =>
        /\ call.raised = "none"
        /\ output_probs.type = "TensorVariable"
        /\ \A loc \in Locations :
            LET probs == output_probs.value[loc[1]][loc[2]]
            IN  /\ probs[_unk_id + 1][1] = 0
                /\ SeqSum(Numerators(probs)) - probs[_unk_id + 1][1]
                       = probs[_unk_id + 1][2]

C3_TargetProbs ==
    pc = "structured" =>
        \A loc \in Locations :
            target_probs.value[loc[1]][loc[2]] =
                output_probs.value[loc[1]][loc[2]]
                    [_network.target_class_ids[loc[1]][loc[2]] + 1]

C3_Witness ==
    /\ pc = "structured"
    /\ Len(target_probs.value) = 2
    /\ Len(target_probs.value[1]) = 2
    /\ _network.target_class_ids[1][2] # _network.target_class_ids[2][1]
    /\ target_probs.value[1][2] # target_probs.value[2][1]
    /\ target_probs.value[1][2]
         = output_probs.value[1][2][_network.target_class_ids[1][2] + 1]

\* C6: the registered weight has shape (sum of the input layers' output_size,
\* output_size); its first dimension is the width of the concatenated input, and
\* the pre-activation has output_size entries at every location.
C6_WeightShape ==
    pc # "allocated" =>
        LET weight == param_init_values["layers/output_layer/input/W"]
        IN  /\ weight.shape =
                  <<SeqSum([l \in DOMAIN _input_layers |-> _input_layers[l].output_size]),
                    output_size>>
            /\ frame # Unset =>
                 /\ \A loc \in Locations :
                      /\ Len(frame.layer_input[loc[1]][loc[2]]) = weight.shape[1]
                      /\ Len(frame.tensor_preact[loc[1]][loc[2]]) = output_size
                 /\ Len(frame.preact) = Cardinality(Locations)
                 /\ \A r \in DOMAIN frame.preact : Len(frame.preact[r]) = output_size

C6_Witness ==
    /\ pc = "structured"
    /\ Len(_input_layers) = 2
    /\ _input_layers[1].output_size = 1
    /\ _input_layers[2].output_size = 2
    /\ param_init_values["layers/output_layer/input/W"].shape = <<3, output_size>>
    /\ Len(frame.layer_input[1][1]) = 3

====
